---------------------------- MODULE Spec2Model ----------------------------
(***************************************************************************)
(* Last-Mile Logistics API (src/main.py): two process-wide lists, jobs and *)
(* drivers, two id counters, and the request handlers that read and write  *)
(* them.                                                                   *)
(*                                                                         *)
(* Spec      every request handler runs to completion before the next one  *)
(*           starts (one action per handler).                              *)
(* SpecConc  the handlers run on the worker threads the framework gives to *)
(*           plain "def" endpoints; a handler is a sequence of steps, one  *)
(*           per read or write of the shared state, and the steps of two   *)
(*           requests interleave freely (the code takes no lock).          *)
(*                                                                         *)
(* Optional[T] values are modelled as sequences: None is <<>> and a        *)
(* present value v is <<v>>.                                               *)
(***************************************************************************)
EXTENDS Integers, Sequences, FiniteSets, TLC

VARIABLES jobs, drivers, next_job_id, next_driver_id,
          last, issued, assign_calls, threads

vars == <<jobs, drivers, next_job_id, next_driver_id,
          last, issued, assign_calls, threads>>

shared == <<jobs, drivers, next_job_id, next_driver_id>>

-----------------------------------------------------------------------------
(* Bounds of the model *)

MaxJobs == 4

MaxDrivers == 3

NumThreads == 2

-----------------------------------------------------------------------------
(* Optional values *)

None == <<>>

Some(v) == <<v>>

(* Python truthiness of an Optional[str]: None and "" are falsy *)
Truthy(opt) == opt # None /\ opt[1] # ""

(* Python's  a or b  on an Optional[str] a and a str b *)
PyOr(opt, dflt) == IF Truthy(opt) THEN opt ELSE Some(dflt)

-----------------------------------------------------------------------------
(* Data: seed records and request payloads *)

SeedDrivers ==
    << [id |-> 1, name |-> "John Doe", current_location |-> Some("Seattle"),
        phone |-> Some("555-1234"), vehicle_type |-> Some("Box Truck")],
       [id |-> 2, name |-> "Sarah Lee", current_location |-> Some("Bellevue"),
        phone |-> Some("555-5678"), vehicle_type |-> Some("Dry Van")] >>

SeedJob(i, pickup, dropoff, load) ==
    [id |-> i, pickup_location |-> pickup, dropoff_location |-> dropoff,
     load_description |-> load, status |-> "available", driver_id |-> None,
     weight |-> None, equipment_type |-> None, delivery_window |-> None,
     contact_phone |-> None, price_offered |-> None]

SeedJobs ==
    << SeedJob(1, "Amazon SODO", "Bellevue Downtown", "Pallet of boxes"),
       SeedJob(2, "Port of Seattle Terminal 18", "Redmond Microsoft Campus",
               "Electronics container") >>

(* JobCreate bodies: one with only the required fields, one with all *)
JobCreateInputs ==
    { [pickup_location |-> "A", dropoff_location |-> "B",
       load_description |-> "boxes", weight |-> None, equipment_type |-> None,
       delivery_window |-> None, contact_phone |-> None,
       price_offered |-> None],
      [pickup_location |-> "Kent", dropoff_location |-> "Tacoma",
       load_description |-> "steel", weight |-> Some("2 t"),
       equipment_type |-> Some("Flatbed"), delivery_window |-> Some("9-5"),
       contact_phone |-> Some("555-0000"), price_offered |-> Some(250)] }

(* DriverCreate bodies: current_location absent, empty text, and a place *)
DriverCreateInputs ==
    { [name |-> "Ann", current_location |-> loc, phone |-> None,
       vehicle_type |-> None] : loc \in {None, Some(""), Some("Tacoma")} }

(* job_id path parameters: 0 never names a job; 1 is a seed job; 3 and 4
   name no job until the first and the second create_job *)
JobIdInputs == {0, 1, 3, 4}

(* driver_id path parameters: a registered driver, an unregistered one *)
DriverIdInputs == {1, 9}

-----------------------------------------------------------------------------
(* Record constructors and the linear search *)

NewDriver(driver, nid) ==
    [id |-> nid, name |-> driver.name,
     current_location |-> PyOr(driver.current_location, "Unknown"),
     phone |-> driver.phone, vehicle_type |-> driver.vehicle_type]

(* mutant: the id is taken one behind the counter *)
NewJob_stale(job, nid) ==
    [id |-> nid - 1, pickup_location |-> job.pickup_location,
     dropoff_location |-> job.dropoff_location,
     load_description |-> job.load_description,
     status |-> "available", driver_id |-> None,
     weight |-> job.weight, equipment_type |-> job.equipment_type,
     delivery_window |-> job.delivery_window,
     contact_phone |-> job.contact_phone,
     price_offered |-> job.price_offered]

NewJob(job, nid) ==
    [id |-> nid, pickup_location |-> job.pickup_location,
     dropoff_location |-> job.dropoff_location,
     load_description |-> job.load_description,
     status |-> "available", driver_id |-> None,
     weight |-> job.weight, equipment_type |-> job.equipment_type,
     delivery_window |-> job.delivery_window,
     contact_phone |-> job.contact_phone,
     price_offered |-> job.price_offered]

(* mutant: with no match the loop variable is left on the last job *)
FindJob_last(js, job_id) ==
    IF \E i \in 1..Len(js) : js[i].id = job_id
    THEN CHOOSE i \in 1..Len(js) :
            /\ js[i].id = job_id
            /\ \A k \in 1..(i-1) : js[k].id # job_id
    ELSE Len(js)

(* for job in jobs: if job.id == job_id
   the index of the first match, 0 if the loop ends without one *)
FindJob(js, job_id) ==
    IF \E i \in 1..Len(js) : js[i].id = job_id
    THEN CHOOSE i \in 1..Len(js) :
            /\ js[i].id = job_id
            /\ \A k \in 1..(i-1) : js[k].id # job_id
    ELSE 0

(* mutant: a driver already set is kept *)
SetAssigned_keep(j, driver_id) ==
    [j EXCEPT !.status = "assigned",
              !.driver_id = IF j.driver_id = None THEN Some(driver_id)
                            ELSE j.driver_id]

(* mutant: the status line is missing *)
SetAssigned_nostatus(j, driver_id) ==
    [j EXCEPT !.driver_id = Some(driver_id)]

SetAssigned(j, driver_id) ==
    [j EXCEPT !.status = "assigned", !.driver_id = Some(driver_id)]

(* mutant: only an assigned job is completed *)
SetCompleted_guarded(j) ==
    IF j.status = "assigned" THEN [j EXCEPT !.status = "completed"] ELSE j

(* mutant: completion also releases the driver *)
SetCompleted_release(j) ==
    [j EXCEPT !.status = "completed", !.driver_id = None]

SetCompleted(j) == [j EXCEPT !.status = "completed"]

-----------------------------------------------------------------------------
(* Responses *)

(* The last request and its response: op names the handler, req is the    *)
(* request body and job_id, driver_id the path parameters (None where the  *)
(* handler has none), code the HTTP status, detail the message, body the   *)
(* returned record, prior the status the matched job had before the call.  *)
Response(op, req, job_id, driver_id, code, detail, body, prior) ==
    [op |-> op, req |-> req, job_id |-> job_id, driver_id |-> driver_id,
     code |-> code, detail |-> detail, body |-> body, prior |-> prior]

NoRequest == Response("none", None, None, None, 0, "", None, "")

IdleThread == [pc |-> "idle", rec |-> None, idx |-> 0, arg |-> 0, tmp |-> 0]

Threads == 1 .. NumThreads

-----------------------------------------------------------------------------
Init ==
    /\ jobs = SeedJobs
    /\ drivers = SeedDrivers
    /\ next_job_id = 3
    /\ next_driver_id = 3
    /\ last = NoRequest
    /\ issued = << >>
    /\ assign_calls = {}
    /\ threads = [t \in Threads |-> IdleThread]

-----------------------------------------------------------------------------
(* Handlers, one request at a time *)

get_drivers == drivers

get_jobs == jobs

GetDrivers ==
    /\ last' = Response("get_drivers", None, None, None, 200, "", None, "")
    /\ UNCHANGED <<shared, issued, assign_calls, threads>>

GetJobs ==
    /\ last' = Response("get_jobs", None, None, None, 200, "", None, "")
    /\ UNCHANGED <<shared, issued, assign_calls, threads>>

CreateDriver(driver) ==
    /\ Len(drivers) < MaxDrivers
    /\ LET new_driver == NewDriver(driver, next_driver_id) IN
        /\ drivers' = Append(drivers, new_driver)
        /\ next_driver_id' = next_driver_id + 1
        /\ last' = Response("create_driver", Some(driver), None, None, 200,
                            "", Some(new_driver), "")
    /\ UNCHANGED <<jobs, next_job_id, issued, assign_calls, threads>>

(* mutant: the new job is put at the head of the list *)
CreateJob_prepend(job) ==
    /\ Len(jobs) < MaxJobs
    /\ LET new_job == NewJob(job, next_job_id) IN
        /\ jobs' = <<new_job>> \o jobs
        /\ next_job_id' = next_job_id + 1
        /\ last' = Response("create_job", Some(job), None, None, 200, "",
                            Some(new_job), "")
        /\ issued' = Append(issued, new_job)
    /\ UNCHANGED <<drivers, next_driver_id, assign_calls, threads>>

CreateJob(job) ==
    /\ Len(jobs) < MaxJobs
    /\ LET new_job == NewJob(job, next_job_id) IN
        /\ jobs' = Append(jobs, new_job)
        /\ next_job_id' = next_job_id + 1
        /\ last' = Response("create_job", Some(job), None, None, 200, "",
                            Some(new_job), "")
        /\ issued' = Append(issued, new_job)
    /\ UNCHANGED <<drivers, next_driver_id, assign_calls, threads>>

JobNotFound(op, job_id, driver_id) ==
    /\ last' = Response(op, None, Some(job_id), driver_id, 404,
                        "Job not found", None, "")
    /\ UNCHANGED <<shared, issued, assign_calls, threads>>

AssignDriver(job_id, driver_id) ==
    LET i == FindJob(jobs, job_id) IN
    IF i # 0
    THEN /\ jobs' = [jobs EXCEPT ![i] = SetAssigned(jobs[i], driver_id)]
         /\ last' = Response("assign_driver", None, Some(job_id),
                             Some(driver_id), 200, "Driver assigned",
                             Some(jobs'[i]), jobs[i].status)
         /\ assign_calls' = assign_calls \cup {job_id}
         /\ UNCHANGED <<drivers, next_job_id, next_driver_id, issued, threads>>
    ELSE JobNotFound("assign_driver", job_id, Some(driver_id))

CompleteJob(job_id) ==
    LET i == FindJob(jobs, job_id) IN
    IF i # 0
    THEN /\ jobs' = [jobs EXCEPT ![i] = SetCompleted(jobs[i])]
         /\ last' = Response("complete_job", None, Some(job_id), None,
                             200, "Job completed", Some(jobs'[i]),
                             jobs[i].status)
         /\ UNCHANGED <<drivers, next_job_id, next_driver_id, issued,
                        assign_calls, threads>>
    ELSE JobNotFound("complete_job", job_id, None)

DoCreateDriver == \E driver \in DriverCreateInputs : CreateDriver(driver)

DoCreateJob == \E job \in JobCreateInputs : CreateJob(job)

DoAssignDriver ==
    \E job_id \in JobIdInputs, driver_id \in DriverIdInputs :
        AssignDriver(job_id, driver_id)

DoCompleteJob == \E job_id \in JobIdInputs : CompleteJob(job_id)

Next ==
    \/ GetDrivers
    \/ GetJobs
    \/ DoCreateDriver
    \/ DoCreateJob
    \/ DoAssignDriver
    \/ DoCompleteJob

Spec == Init /\ [][Next]_vars

-----------------------------------------------------------------------------
(* Handlers on worker threads: one step per access to the shared state.    *)
(* A thread record holds the handler's position and its locals: rec is the *)
(* record under construction, idx the position of the job the loop found,  *)
(* arg the driver_id parameter, tmp the counter value read by "+= 1".      *)

At(t, label) == threads[t].pc = label

Goto(t, label, rec, idx, arg, tmp) ==
    threads' = [threads EXCEPT
                  ![t] = [pc |-> label, rec |-> rec, idx |-> idx,
                          arg |-> arg, tmp |-> tmp]]

Return(t) == threads' = [threads EXCEPT ![t] = IdleThread]

InFlight(label) == Cardinality({t \in Threads : At(t, label)})

ghosts == <<last, issued, assign_calls>>

(* create_driver: build the record (reads next_driver_id) *)
CD_Build(t, driver) ==
    /\ At(t, "idle")
    /\ Len(drivers) + InFlight("cd_append") < MaxDrivers
    /\ Goto(t, "cd_append", Some(NewDriver(driver, next_driver_id)), 0, 0, 0)
    /\ UNCHANGED <<shared, ghosts>>

(* drivers.append(new_driver) *)
CD_Append(t) ==
    /\ At(t, "cd_append")
    /\ drivers' = Append(drivers, threads[t].rec[1])
    /\ Goto(t, "cd_load", None, 0, 0, 0)
    /\ UNCHANGED <<jobs, next_job_id, next_driver_id, ghosts>>

(* next_driver_id += 1, the read *)
CD_Load(t) ==
    /\ At(t, "cd_load")
    /\ Goto(t, "cd_store", None, 0, 0, next_driver_id)
    /\ UNCHANGED <<shared, ghosts>>

(* next_driver_id += 1, the write; return *)
CD_Store(t) ==
    /\ At(t, "cd_store")
    /\ next_driver_id' = threads[t].tmp + 1
    /\ Return(t)
    /\ UNCHANGED <<jobs, drivers, next_job_id, ghosts>>

(* create_job: build the record (reads next_job_id) *)
CJ_Build(t, job) ==
    /\ At(t, "idle")
    /\ Len(jobs) + InFlight("cj_append") < MaxJobs
    /\ Goto(t, "cj_append", Some(NewJob(job, next_job_id)), 0, 0, 0)
    /\ UNCHANGED <<shared, ghosts>>

(* jobs.append(new_job) *)
CJ_Append(t) ==
    /\ At(t, "cj_append")
    /\ jobs' = Append(jobs, threads[t].rec[1])
    /\ Goto(t, "cj_load", None, 0, 0, 0)
    /\ UNCHANGED <<drivers, next_job_id, next_driver_id, ghosts>>

(* next_job_id += 1, the read *)
CJ_Load(t) ==
    /\ At(t, "cj_load")
    /\ Goto(t, "cj_store", None, 0, 0, next_job_id)
    /\ UNCHANGED <<shared, ghosts>>

(* next_job_id += 1, the write; return *)
CJ_Store(t) ==
    /\ At(t, "cj_store")
    /\ next_job_id' = threads[t].tmp + 1
    /\ Return(t)
    /\ UNCHANGED <<jobs, drivers, next_driver_id, ghosts>>

(* assign_driver: the loop; with no match the handler raises and returns *)
AD_Find(t, job_id, driver_id) ==
    /\ At(t, "idle")
    /\ LET i == FindJob(jobs, job_id) IN
        IF i # 0 THEN Goto(t, "ad_status", None, i, driver_id, 0)
                 ELSE UNCHANGED threads
    /\ UNCHANGED <<shared, ghosts>>

(* job.status = "assigned" *)
AD_Status(t) ==
    /\ At(t, "ad_status")
    /\ jobs' = [jobs EXCEPT ![threads[t].idx].status = "assigned"]
    /\ Goto(t, "ad_driver", None, threads[t].idx, threads[t].arg, 0)
    /\ UNCHANGED <<drivers, next_job_id, next_driver_id, ghosts>>

(* job.driver_id = driver_id; return *)
AD_Driver(t) ==
    /\ At(t, "ad_driver")
    /\ jobs' = [jobs EXCEPT ![threads[t].idx].driver_id = Some(threads[t].arg)]
    /\ Return(t)
    /\ UNCHANGED <<drivers, next_job_id, next_driver_id, ghosts>>

(* complete_job: the loop; with no match the handler raises and returns *)
CP_Find(t, job_id) ==
    /\ At(t, "idle")
    /\ LET i == FindJob(jobs, job_id) IN
        IF i # 0 THEN Goto(t, "cp_status", None, i, 0, 0)
                 ELSE UNCHANGED threads
    /\ UNCHANGED <<shared, ghosts>>

(* job.status = "completed"; return *)
CP_Status(t) ==
    /\ At(t, "cp_status")
    /\ jobs' = [jobs EXCEPT ![threads[t].idx].status = "completed"]
    /\ Return(t)
    /\ UNCHANGED <<drivers, next_job_id, next_driver_id, ghosts>>

StartCreateDriver ==
    \E t \in Threads, driver \in DriverCreateInputs : CD_Build(t, driver)

StartCreateJob == \E t \in Threads, job \in JobCreateInputs : CJ_Build(t, job)

StartAssignDriver ==
    \E t \in Threads, job_id \in JobIdInputs, driver_id \in DriverIdInputs :
        AD_Find(t, job_id, driver_id)

StartCompleteJob == \E t \in Threads, job_id \in JobIdInputs : CP_Find(t, job_id)

StepCreateDriver == \E t \in Threads : CD_Append(t) \/ CD_Load(t) \/ CD_Store(t)

StepCreateJob == \E t \in Threads : CJ_Append(t) \/ CJ_Load(t) \/ CJ_Store(t)

StepAssignDriver == \E t \in Threads : AD_Status(t) \/ AD_Driver(t)

StepCompleteJob == \E t \in Threads : CP_Status(t)

NextConc ==
    \/ StartCreateDriver
    \/ StartCreateJob
    \/ StartAssignDriver
    \/ StartCompleteJob
    \/ StepCreateDriver
    \/ StepCreateJob
    \/ StepAssignDriver
    \/ StepCompleteJob

SpecConc == Init /\ [][NextConc]_vars

-----------------------------------------------------------------------------
(* Properties.  In Spec every step is one whole request, and last' is that *)
(* request and its response, so an action formula of the shape             *)
(*   last'.op = "x" => ...                                                 *)
(* speaks of the state before (unprimed) and after (primed) a call of x.   *)

HasJob(js, job_id) == \E i \in 1..Len(js) : js[i].id = job_id

Forward(a, b) ==
    \/ a = b
    \/ a = "available" /\ b = "assigned"
    \/ a = "assigned" /\ b = "completed"

(* C1: every step changes a job's status only along
   available -> assigned -> completed: never backward, never skipping. *)
C1_StatusForwardOnly ==
    [][\A i \in 1..Len(jobs) :
          /\ i <= Len(jobs')
          /\ Forward(jobs[i].status, jobs'[i].status)]_vars

(* C2: the job a create_job returns is the record appended to jobs, has
   status "available", driver_id null and an id greater than the id of every
   job issued before it (seed jobs included); next_job_id grows by 1. *)
C2_CreateJobResult ==
    [][last'.op = "create_job" =>
         LET r == last'.body[1] IN
           /\ last'.code = 200
           /\ r.status = "available"
           /\ r.driver_id = None
           /\ \A i \in 1..Len(SeedJobs) : r.id > SeedJobs[i].id
           /\ \A i \in 1..Len(issued) : r.id > issued[i].id
           /\ \A i \in 1..Len(jobs) : r.id > jobs[i].id
           /\ jobs' = Append(jobs, r)
           /\ next_job_id' = next_job_id + 1]_vars

C2_Witness ==
    /\ last.op = "create_job"
    /\ Len(issued) = 2
    /\ \E i \in 1..Len(jobs) : jobs[i].status = "completed"
    /\ \E i \in 1..Len(jobs) : jobs[i].status = "assigned"

(* the identity of a job: everything but the two fields requests mutate *)
Ident(j) == [j EXCEPT !.status = "available", !.driver_id = None]

(* C3: list_jobs is the 2 seed jobs followed by the created jobs in creation
   order: nothing removed, reordered or duplicated. *)
C3_ListIsSeedsThenCreated ==
    /\ Len(get_jobs) = Len(SeedJobs) + Len(issued)
    /\ \A i \in 1..Len(SeedJobs) : Ident(get_jobs[i]) = SeedJobs[i]
    /\ \A i \in 1..Len(issued) : Ident(get_jobs[Len(SeedJobs) + i]) = issued[i]
    /\ \A i, k \in 1..Len(get_jobs) : i # k => get_jobs[i].id # get_jobs[k].id

C3_Witness ==
    /\ last.op = "get_jobs"
    /\ Len(issued) = 2
    /\ issued[1].pickup_location # issued[2].pickup_location
    /\ Len(drivers) > Len(SeedDrivers)
    /\ \E i \in 1..Len(jobs) : jobs[i].status = "completed"
    /\ \E i \in 1..Len(jobs) : jobs[i].status = "assigned"

(* C4: assign_driver on an existing job id succeeds whatever the job's
   status and whatever the driver_id; afterwards the job is "assigned" to
   the given driver_id (a later assignment overwrites an earlier one). *)
C4_AssignAlwaysSucceeds ==
    [][(last'.op = "assign_driver" /\ HasJob(jobs, last'.job_id[1])) =>
         /\ last'.code = 200
         /\ Len(jobs') = Len(jobs)
         /\ \A i \in 1..Len(jobs) :
              jobs[i].id = last'.job_id[1] =>
                /\ jobs'[i].status = "assigned"
                /\ jobs'[i].driver_id = last'.driver_id
                /\ last'.body = Some(jobs'[i])]_vars

C4_Witness ==
    /\ last.op = "assign_driver"
    /\ last.code = 200
    /\ last.prior = "completed"
    /\ last.driver_id = Some(9)
    /\ \A i \in 1..Len(drivers) : drivers[i].id # 9
    /\ \E i \in 1..Len(jobs) :
          jobs[i].id = last.job_id[1] /\ jobs[i].driver_id = Some(9)

(* C5: complete_job on an existing job id succeeds whatever the job's status
   and leaves it "completed"; on a job already completed it changes nothing
   of jobs, drivers and the two counters. *)
C5_CompleteIdempotent ==
    [][(last'.op = "complete_job" /\ HasJob(jobs, last'.job_id[1])) =>
         /\ last'.code = 200
         /\ Len(jobs') = Len(jobs)
         /\ \A i \in 1..Len(jobs) :
              jobs[i].id = last'.job_id[1] => jobs'[i].status = "completed"
         /\ (\A i \in 1..Len(jobs) :
               jobs[i].id = last'.job_id[1] => jobs[i].status = "completed")
            => shared' = shared]_vars

C5_Witness ==
    /\ last.op = "complete_job"
    /\ last.code = 200
    /\ last.prior = "completed"

(* C6: assign_driver or complete_job with a job_id no job has answers 404
   "Job not found" and leaves jobs, drivers and both counters as they were. *)
C6_NotFoundChangesNothing ==
    [][(/\ last'.op \in {"assign_driver", "complete_job"}
        /\ ~HasJob(jobs, last'.job_id[1])) =>
         /\ last'.code = 404
         /\ last'.detail = "Job not found"
         /\ shared' = shared]_vars

C6_Witness ==
    /\ last.op \in {"assign_driver", "complete_job"}
    /\ last.code = 404
    /\ last.job_id = Some(4)
    /\ Len(jobs) = 3
    /\ \E i \in 1..Len(jobs) : jobs[i].status # "available"

(* C7: create_driver appends a driver whose id is the current next_driver_id,
   greater than every earlier driver id; its current_location is "Unknown"
   when the request gives none, and the request's text unchanged when it
   gives one. *)
C7_CreateDriverLocation ==
    [][last'.op = "create_driver" =>
         LET r == last'.body[1]
             q == last'.req[1] IN
           /\ r.id = next_driver_id
           /\ \A i \in 1..Len(drivers) : r.id > drivers[i].id
           /\ drivers' = Append(drivers, r)
           /\ q.current_location = None
                => r.current_location = Some("Unknown")
           /\ q.current_location # None
                => r.current_location = q.current_location]_vars

(* C8: a job that is "available" has driver_id null; a job with a driver_id
   is "assigned" or "completed" and has had a successful assign_driver. *)
C8_DriverOnlyOnceAssigned ==
    \A i \in 1..Len(jobs) :
       /\ jobs[i].status = "available" => jobs[i].driver_id = None
       /\ jobs[i].driver_id # None =>
            /\ jobs[i].status \in {"assigned", "completed"}
            /\ jobs[i].id \in assign_calls

C8_Witness ==
    /\ \E i \in 1..Len(jobs) :
          jobs[i].status = "completed" /\ jobs[i].driver_id # None
    /\ \E i \in 1..Len(jobs) :
          jobs[i].status = "completed" /\ jobs[i].driver_id = None
    /\ \E i \in 1..Len(jobs) :
          jobs[i].status = "assigned" /\ jobs[i].driver_id # None
    /\ \E i \in 1..Len(jobs) : jobs[i].status = "available"

(* C9: a successful assign_driver changes only status and driver_id of the
   matching job, a successful complete_job only its status; create_job
   leaves drivers and next_driver_id alone, create_driver leaves jobs and
   next_job_id alone; a registered driver is never changed or removed. *)
C9_Frame ==
    [][/\ (last'.op = "assign_driver" /\ last'.code = 200) =>
            /\ Len(jobs') = Len(jobs)
            /\ \A i \in 1..Len(jobs) :
                 IF jobs[i].id = last'.job_id[1]
                 THEN jobs'[i] = [jobs[i] EXCEPT
                                    !.status = jobs'[i].status,
                                    !.driver_id = jobs'[i].driver_id]
                 ELSE jobs'[i] = jobs[i]
            /\ UNCHANGED <<drivers, next_job_id, next_driver_id>>
       /\ (last'.op = "complete_job" /\ last'.code = 200) =>
            /\ Len(jobs') = Len(jobs)
            /\ \A i \in 1..Len(jobs) :
                 IF jobs[i].id = last'.job_id[1]
                 THEN jobs'[i] = [jobs[i] EXCEPT !.status = jobs'[i].status]
                 ELSE jobs'[i] = jobs[i]
            /\ UNCHANGED <<drivers, next_job_id, next_driver_id>>
       /\ last'.op = "create_job" => UNCHANGED <<drivers, next_driver_id>>
       /\ last'.op = "create_driver" => UNCHANGED <<jobs, next_job_id>>
       /\ Len(drivers') >= Len(drivers)
       /\ \A i \in 1..Len(drivers) : drivers'[i] = drivers[i]]_vars

C9_Witness ==
    /\ last.op = "complete_job"
    /\ last.code = 200
    /\ last.prior = "assigned"
    /\ last.body[1].driver_id # None
    /\ Len(jobs) = 4
    /\ Len(drivers) = 3

Quiescent == \A t \in Threads : At(t, "idle")

(* C10: job ids, and driver ids, are pairwise distinct in every state, also
   while create requests interleave; and, whenever no request is under way,
   each counter is greater than every id in its list. *)
C10_IdsDistinct ==
    /\ \A i, k \in 1..Len(jobs) : i # k => jobs[i].id # jobs[k].id
    /\ \A i, k \in 1..Len(drivers) : i # k => drivers[i].id # drivers[k].id
    /\ Quiescent => \A i \in 1..Len(jobs) : jobs[i].id < next_job_id
    /\ Quiescent => \A i \in 1..Len(drivers) : drivers[i].id < next_driver_id

=============================================================================
